---- MODULE Spec2Model ----
(***************************************************************************)
(* Mini CRM backend: the customer routes (backend/routes/customers.js),    *)
(* the nested lead routes (part_001), the Joi validation middleware and    *)
(* the mongoose Customer / Lead models, as a state machine over the two    *)
(* collections.                                                            *)
(*                                                                         *)
(* Strings are sequences of one-character strings, so that trim(),         *)
(* lowercase() and $regex matching are computed and not assumed.           *)
(* ObjectIds are positive integers handed out in creation order and never  *)
(* reused; 0 stands for an id string that cannot be cast to an ObjectId.   *)
(* createdAt order is the order of the ids.                                *)
(***************************************************************************)
EXTENDS Integers, Sequences, FiniteSets, TLC

\* ------------------------------------------------------------------ bounds
MaxCustomers == 2
MaxLeads == 2

\* ------------------------------------------------------- identities (req.user)
Users == {"u1", "u2", "adm"}

Role(u) == IF u = "adm" THEN "admin" ELSE "user"

\* ------------------------------------------------------------------ strings
LowerChar(c) ==
  CASE c = "A" -> "a"
    [] c = "C" -> "c"
    [] OTHER -> c

ToLower(s) == [i \in 1..Len(s) |-> LowerChar(s[i])]

RECURSIVE TrimLeft(_)
TrimLeft(s) == IF s # <<>> /\ Head(s) = " " THEN TrimLeft(Tail(s)) ELSE s

RECURSIVE TrimRight(_)
TrimRight(s) ==
  IF s # <<>> /\ s[Len(s)] = " " THEN TrimRight(SubSeq(s, 1, Len(s) - 1)) ELSE s

Trim(s) == TrimRight(TrimLeft(s))

\* positions of character c in s
Positions(s, c) == {i \in 1..Len(s) : s[i] = c}

\* Joi string().email(): one "@", a non-empty local part, a domain of at least
\* two non-empty segments whose last one (the TLD) has two letters or more.
IsEmail(s) ==
  /\ Cardinality(Positions(s, "@")) = 1
  /\ Positions(s, " ") = {}
  /\ LET at == CHOOSE i \in Positions(s, "@") : TRUE
         dots == {i \in Positions(s, ".") : i > at}
     IN /\ at > 1
        /\ dots # {}
        /\ \A d \in dots : d > at + 1 /\ d < Len(s) /\ (d + 1) \notin dots
        /\ \A d \in dots : (\A e \in dots : e <= d) => Len(s) - d >= 2

\* { field: { $regex: q, $options: 'i' } }: q is a pattern, "." matches any
\* one character, every other character of the alphabet matches itself,
\* compared without case; the pattern may match anywhere in s.
RegexMatch(q, s) ==
  \E i \in 0..(Len(s) - Len(q)) :
    \A j \in 1..Len(q) : q[j] = "." \/ LowerChar(q[j]) = LowerChar(s[i + j])

\* Joi number() under convert: a query string value that is an optionally
\* signed run of digits, with or without a fractional part, becomes that
\* number; anything else is not a number. A number is an integer when its
\* fractional part is zero.
Digits == {"0", "1", "2", "3", "4", "5", "6", "7", "8", "9"}

DigitValue(c) ==
  CASE c = "0" -> 0 [] c = "1" -> 1 [] c = "2" -> 2 [] c = "3" -> 3
    [] c = "4" -> 4 [] c = "5" -> 5 [] c = "6" -> 6 [] c = "7" -> 7
    [] c = "8" -> 8 [] OTHER -> 9

IsDigits(s) == s # <<>> /\ \A i \in 1..Len(s) : s[i] \in Digits

Negative(s) == Trim(s) # <<>> /\ Head(Trim(s)) = "-"

Unsigned(s) == IF Negative(s) THEN Tail(Trim(s)) ELSE Trim(s)

\* the digits before and after the decimal point
WholeDigits(s) ==
  LET t == Unsigned(s)
      dots == Positions(t, ".")
  IN IF dots = {} THEN t ELSE SubSeq(t, 1, (CHOOSE d \in dots : TRUE) - 1)

FractionDigits(s) ==
  LET t == Unsigned(s)
      dots == Positions(t, ".")
  IN IF dots = {} THEN <<>>
     ELSE SubSeq(t, (CHOOSE d \in dots : TRUE) + 1, Len(t))

NumberKind(s) ==
  LET dots == Positions(Unsigned(s), ".")
  IN IF ~IsDigits(WholeDigits(s)) \/ Cardinality(dots) > 1 THEN "NaN"
     ELSE IF dots = {} THEN "integer"
     ELSE IF ~IsDigits(FractionDigits(s)) THEN "NaN"
     ELSE IF \A i \in 1..Len(FractionDigits(s)) : FractionDigits(s)[i] = "0"
       THEN "integer"
     ELSE "fraction"

RECURSIVE DigitsValue(_)
DigitsValue(s) ==
  IF s = <<>> THEN 0
  ELSE 10 * DigitsValue(SubSeq(s, 1, Len(s) - 1)) + DigitValue(s[Len(s)])

\* the value of a string that is an integer
ToInteger(s) ==
  IF Negative(s) THEN 0 - DigitsValue(WholeDigits(s))
  ELSE DigitsValue(WholeDigits(s))

\* number.min(n) and number.max(n) on a string that is a number
BelowMin(s, n) ==
  IF Negative(s) THEN 0 - DigitsValue(WholeDigits(s)) < n
  ELSE DigitsValue(WholeDigits(s)) < n

AboveMax(s, n) ==
  /\ ~Negative(s)
  /\ \/ DigitsValue(WholeDigits(s)) > n
     \/ DigitsValue(WholeDigits(s)) = n /\ NumberKind(s) = "fraction"

\* ------------------------------------------------------------- request data
MalformedId == 0

NameAl == <<"A", "l">>
NameAcme == <<"A", "c", "m", "e">>
EmailA == <<"a", "@", "b", ".", "i", "o">>
EmailAUpper == <<" ", "A", "@", "b", ".", "i", "o">>
EmailC == <<"c", "@", "b", ".", "i", "o">>
TitleDeal == <<"D", "e", "a", "l">>

\* request bodies sent to POST /api/customers and PUT /api/customers/:id
CustomerBodies ==
  { [name |-> NameAl, email |-> EmailA],
    [name |-> NameAcme, email |-> EmailAUpper],
    [name |-> NameAl, email |-> EmailC],
    [name |-> <<"A">>, email |-> <<"a", "b">>],
    [name |-> NameAl, email |-> EmailA, ownerId |-> "u2"] }

\* request bodies sent to POST / PUT of a lead
LeadBodies ==
  { [title |-> TitleDeal],
    [title |-> TitleDeal, status |-> "Contacted", value |-> 5],
    [title |-> TitleDeal, value |-> -5],
    [status |-> "Contacted", value |-> 5],
    [title |-> TitleDeal, customerId |-> 1] }

\* query strings of GET /api/customers
CustomerQueries ==
  { <<>>,
    [page |-> <<"1">>, limit |-> <<"1">>],
    [page |-> <<"2">>, limit |-> <<"1">>],
    [q |-> <<"a", "c">>],
    [q |-> <<"a", ".", "b">>],
    [page |-> <<"0">>],
    [page |-> <<"1", ".", "5">>],
    [limit |-> <<"0">>],
    [limit |-> <<"1", "0", "1">>],
    [limit |-> <<"x">>] }

\* query strings of GET /api/customers/:customerId/leads
LeadQueries ==
  { <<>>,
    [page |-> <<"1">>, limit |-> <<"1">>],
    [page |-> <<"2">>, limit |-> <<"1">>],
    [status |-> "Contacted"],
    [status |-> ""],
    [status |-> "Open"],
    [page |-> <<"0">>],
    [limit |-> <<"1", ".", "5">>] }

LeadStatuses == {"New", "Contacted", "Converted", "Lost"}

Has(r, k) == k \in DOMAIN r

\* ---------------------------------------------------------- Joi validation
\* customerSchema.validate(body, {abortEarly: false}): the fields in error and
\* the converted value (name trimmed, email trimmed and lowercased). Keys the
\* schema does not name are errors (Joi.object() allows no unknown key).
CustomerSchemaKeys == {"name", "email", "company"}

CustomerErrors_AllowUnknown(body) ==
  {k \in {"name"} : ~Has(body, "name") \/ Len(Trim(body.name)) < 2
                       \/ Len(Trim(body.name)) > 100}
  \cup {k \in {"email"} : ~Has(body, "email") \/ ~IsEmail(Trim(body.email))}
  \cup {k \in {"company"} : Has(body, "company") /\ Len(Trim(body.company)) > 100}

CustomerErrors(body) ==
  {k \in {"name"} : ~Has(body, "name") \/ Len(Trim(body.name)) < 2
                       \/ Len(Trim(body.name)) > 100}
  \cup {k \in {"email"} : ~Has(body, "email") \/ ~IsEmail(Trim(body.email))}
  \cup {k \in {"company"} : Has(body, "company") /\ Len(Trim(body.company)) > 100}
  \cup (DOMAIN body \ CustomerSchemaKeys)

CustomerValue(body) ==
  [k \in DOMAIN body |->
     CASE k = "name" -> Trim(body[k])
       [] k = "email" -> ToLower(Trim(body[k]))
       [] k = "company" -> Trim(body[k])
       [] OTHER -> body[k]]

\* a Joi message is kept as its parts: the label of a default message is the
\* key it is about
Quoted(k, text) == <<"\"", k, "\"", text>>

\* detail.message of the rules of customerSchema a key of the body violates
CustomerMessages(body, k) ==
  CASE k \notin CustomerSchemaKeys -> {Quoted(k, " is not allowed")}
    [] ~Has(body, k) -> {Quoted(k, " is required")}
    [] k = "name" ->
         IF Trim(body.name) = <<>> THEN {<<"Customer name is required">>}
         ELSE IF Len(Trim(body.name)) < 2
           THEN {<<"Name must be at least 2 characters">>}
         ELSE {<<"Name cannot exceed 100 characters">>}
    [] k = "email" ->
         IF Trim(body.email) = <<>> THEN {<<"Email is required">>}
         ELSE {<<"Please provide a valid email address">>}
    [] OTHER -> {<<"Company name cannot exceed 100 characters">>}

\* leadSchema.validate(body, {abortEarly: false}): status and value get their
\* defaults when the body leaves them out.
LeadSchemaKeys == {"title", "description", "status", "value"}

LeadErrors_AllowUnknown(body) ==
  {k \in {"title"} : ~Has(body, "title") \/ Len(Trim(body.title)) < 2
                        \/ Len(Trim(body.title)) > 200}
  \cup {k \in {"description"} :
          Has(body, "description") /\ Len(Trim(body.description)) > 1000}
  \cup {k \in {"status"} : Has(body, "status") /\ body.status \notin LeadStatuses}
  \cup {k \in {"value"} : Has(body, "value") /\ body.value < 0}

LeadErrors_NoMin(body) ==
  {k \in {"title"} : ~Has(body, "title") \/ Len(Trim(body.title)) < 2
                        \/ Len(Trim(body.title)) > 200}
  \cup {k \in {"description"} :
          Has(body, "description") /\ Len(Trim(body.description)) > 1000}
  \cup {k \in {"status"} : Has(body, "status") /\ body.status \notin LeadStatuses}
  \cup (DOMAIN body \ LeadSchemaKeys)

LeadErrors(body) ==
  {k \in {"title"} : ~Has(body, "title") \/ Len(Trim(body.title)) < 2
                        \/ Len(Trim(body.title)) > 200}
  \cup {k \in {"description"} :
          Has(body, "description") /\ Len(Trim(body.description)) > 1000}
  \cup {k \in {"status"} : Has(body, "status") /\ body.status \notin LeadStatuses}
  \cup {k \in {"value"} : Has(body, "value") /\ body.value < 0}
  \cup (DOMAIN body \ LeadSchemaKeys)

LeadValue(body) ==
  [k \in DOMAIN body \cup {"status", "value"} |->
     CASE k = "title" -> Trim(body[k])
       [] k = "description" -> Trim(body[k])
       [] k = "status" -> IF Has(body, "status") THEN body.status ELSE "New"
       [] k = "value" -> IF Has(body, "value") THEN body.value ELSE 0
       [] OTHER -> body[k]]

LeadMessages(body, k) ==
  CASE k \notin LeadSchemaKeys -> {Quoted(k, " is not allowed")}
    [] ~Has(body, k) -> {Quoted(k, " is required")}
    [] k = "title" ->
         IF Trim(body.title) = <<>> THEN {<<"Lead title is required">>}
         ELSE IF Len(Trim(body.title)) < 2
           THEN {<<"Title must be at least 2 characters">>}
         ELSE {<<"Title cannot exceed 200 characters">>}
    [] k = "description" -> {<<"Description cannot exceed 1000 characters">>}
    [] k = "status" ->
         {Quoted(k, " must be one of [New, Contacted, Converted, Lost]")}
    [] OTHER -> {<<"Value cannot be negative">>}

\* paginationSchema and leadFilterSchema
PageErrors_NoMax(query) ==
  {k \in {"page"} :
     Has(query, "page")
     /\ (NumberKind(query.page) # "integer" \/ BelowMin(query.page, 1))}
  \cup {k \in {"limit"} :
          Has(query, "limit")
          /\ (\/ NumberKind(query.limit) # "integer"
              \/ BelowMin(query.limit, 1))}

PageErrors(query) ==
  {k \in {"page"} :
     Has(query, "page")
     /\ (NumberKind(query.page) # "integer" \/ BelowMin(query.page, 1))}
  \cup {k \in {"limit"} :
          Has(query, "limit")
          /\ (\/ NumberKind(query.limit) # "integer"
              \/ BelowMin(query.limit, 1)
              \/ AboveMax(query.limit, 100))}

PaginationErrors(query) ==
  PageErrors(query)
  \cup {k \in {"q"} : Has(query, "q") /\ Len(Trim(query.q)) > 100}
  \cup (DOMAIN query \ {"page", "limit", "q"})

LeadFilterErrors(query) ==
  PageErrors(query)
  \cup {k \in {"status"} :
          Has(query, "status") /\ query.status \notin (LeadStatuses \cup {""})}
  \cup (DOMAIN query \ {"page", "limit", "status"})

\* number(): a value that is no number fails there; integer(), min() and
\* max() are each reported on a value that is one
NumberMessages(s, k) ==
  IF NumberKind(s) = "NaN" THEN {Quoted(k, " must be a number")}
  ELSE {m \in {Quoted(k, " must be an integer")} : NumberKind(s) = "fraction"}
       \cup {m \in {Quoted(k, " must be greater than or equal to 1")} :
               BelowMin(s, 1)}

QueryMessages(query, k) ==
  CASE k = "page" -> NumberMessages(query.page, k)
    [] k = "limit" ->
         NumberMessages(query.limit, k)
         \cup {m \in {Quoted(k, " must be less than or equal to 100")} :
                 NumberKind(query.limit) # "NaN" /\ AboveMax(query.limit, 100)}
    [] k = "q" ->
         {Quoted(k, " length must be less than or equal to 100 characters long")}
    [] k = "status" ->
         {Quoted(k, " must be one of [New, Contacted, Converted, Lost, ]")}
    [] OTHER -> {Quoted(k, " is not allowed")}

\* validate and validateQuery: error.details.map(...) under abortEarly: false
\* has an entry for every rule violated, whatever the key
ErrorDetails_AbortEarly(messages) ==
  LET all == UNION {{[field |-> k, message |-> m] : m \in messages[k]} :
                      k \in DOMAIN messages}
  IN IF all = {} THEN {} ELSE {CHOOSE d \in all : TRUE}

\* messages: for each key in error, the messages of the rules it violates
ErrorDetails(messages) ==
  UNION {{[field |-> k, message |-> m] : m \in messages[k]} :
           k \in DOMAIN messages}

CustomerDetails(body) ==
  ErrorDetails([k \in CustomerErrors(body) |-> CustomerMessages(body, k)])

LeadDetails(body) ==
  ErrorDetails([k \in LeadErrors(body) |-> LeadMessages(body, k)])

PaginationDetails(query) ==
  ErrorDetails([k \in PaginationErrors(query) |-> QueryMessages(query, k)])

LeadFilterDetails(query) ==
  ErrorDetails([k \in LeadFilterErrors(query) |-> QueryMessages(query, k)])

QueryValue(query) ==
  [k \in DOMAIN query \cup {"page", "limit"} |->
     CASE k = "page" -> IF Has(query, "page") THEN ToInteger(query.page) ELSE 1
       [] k = "limit" -> IF Has(query, "limit") THEN ToInteger(query.limit) ELSE 10
       [] k = "q" -> Trim(query[k])
       [] OTHER -> query[k]]

\* the request's body or query passes the schema its route validates
SchemaOk(req) ==
  CASE req.route \in {"POST /customers", "PUT /customers/:id"} ->
         CustomerErrors(req.body) = {}
    [] req.route \in {"POST /leads", "PUT /leads/:leadId"} ->
         LeadErrors(req.body) = {}
    [] req.route = "GET /customers" -> PaginationErrors(req.query) = {}
    [] req.route = "GET /leads" -> LeadFilterErrors(req.query) = {}
    [] OTHER -> TRUE

\* -------------------------------------------------------------------- state
VARIABLES
  customers,       \* Customers collection: ObjectId -> document
  leads,           \* Leads collection: ObjectId -> document
  nextCustomerId,  \* the ObjectId the next new Customer() gets
  nextLeadId,      \* the ObjectId the next new Lead() gets
  resp,            \* the last request served as a whole, with its response
  del,             \* a DELETE /api/customers/:id in flight, await by await
  post,            \* a POST /api/customers/:customerId/leads in flight
  pipe,            \* a request on its way through the middleware of its route
  call,            \* a handler in flight, taken from one await to the next
  auth,            \* the browser: localStorage, AuthProvider, the profile cache
  view             \* the browser: the Customers page and its list requests

store == <<customers, leads, nextCustomerId, nextLeadId>>
client == <<auth, view>>
inflight == <<del, post, pipe, call, client>>
vars ==
  <<customers, leads, nextCustomerId, nextLeadId, resp, del, post, pipe, call,
    auth, view>>

CustomerIdInputs == MalformedId..MaxCustomers
LeadIdInputs == MalformedId..MaxLeads

\* ------------------------------------------------------ mongoose documents
CustomerPaths == {"name", "email", "phone", "company", "ownerId"}
LeadPaths == {"customerId", "title", "description", "status", "value"}

\* customers.js: { ...req.body, ownerId: req.user._id }
CustomerData_SharedOwner(body, user) ==
  [k \in DOMAIN body \cup {"ownerId"} |->
     IF k = "ownerId" THEN "adm" ELSE body[k]]

CustomerData(body, user) ==
  [k \in DOMAIN body \cup {"ownerId"} |->
     IF k = "ownerId" THEN user ELSE body[k]]

\* part_001: { ...req.body, customerId: req.params.customerId }
LeadData(body, customerId) ==
  [k \in DOMAIN body \cup {"customerId"} |->
     IF k = "customerId" THEN customerId ELSE body[k]]

\* new Customer(data): strict schema (other keys dropped), setters applied
CustomerDoc(data) ==
  [k \in DOMAIN data \cap CustomerPaths |->
     CASE k = "email" -> ToLower(Trim(data[k]))
       [] k \in {"name", "phone", "company"} -> Trim(data[k])
       [] OTHER -> data[k]]

\* new Lead(data): strict schema, defaults for status and value
LeadDoc(data) ==
  [k \in (DOMAIN data \cap LeadPaths) \cup {"status", "value"} |->
     CASE k = "status" -> IF Has(data, "status") THEN data.status ELSE "New"
       [] k = "value" -> IF Has(data, "value") THEN data.value ELSE 0
       [] k \in {"title", "description"} -> Trim(data[k])
       [] OTHER -> data[k]]

\* the Customer model's email validator (match: TLD of two or three letters)
\* and its required paths; a document that fails them is not saved
CustomerDocValid(doc) ==
  /\ {"name", "email", "ownerId"} \subseteq DOMAIN doc
  /\ IsEmail(doc.email)
  /\ \A d \in Positions(doc.email, ".") :
       (\A e \in Positions(doc.email, ".") : e <= d) => Len(doc.email) - d <= 3

\* the indexes the Customer model declares: a text index over name, email and
\* company, and one on ownerId; none is unique
CustomerIndexes == {"text", "ownerId"}

\* the duplicate-key error 11000 the handlers catch: raised by a unique index
\* on email when another document holds the same email
DuplicateKey(coll, doc, self) ==
  /\ "email_unique" \in CustomerIndexes
  /\ "email" \in DOMAIN doc
  /\ \E c \in DOMAIN coll \ {self} : coll[c].email = doc.email

\* document.save() of a new document
Insert(coll, id, doc) == (id :> doc) @@ coll

\* Model.findByIdAndUpdate(id, update): $set of the update's schema paths
ApplyUpdate(doc, update, paths) ==
  [k \in DOMAIN doc \cup (DOMAIN update \cap paths) |->
     IF k \in DOMAIN update THEN update[k] ELSE doc[k]]

FindByIdAndUpdate(coll, id, update, paths) ==
  IF id \in DOMAIN coll
    THEN [coll EXCEPT ![id] = ApplyUpdate(@, update, paths)]
    ELSE coll

\* Customer.findByIdAndDelete(id)
FindByIdAndDelete_Keeps(coll, id) == coll

FindByIdAndDelete(coll, id) == [x \in DOMAIN coll \ {id} |-> coll[x]]

\* Lead.deleteMany({ customerId })
LeadDeleteMany_First(coll, customerId) ==
  LET hit == {l \in DOMAIN coll : coll[l].customerId = customerId}
  IN IF hit = {} THEN coll
     ELSE [x \in DOMAIN coll \ {CHOOSE l \in hit : \A m \in hit : l <= m} |-> coll[x]]

LeadDeleteMany(coll, customerId) ==
  [x \in {l \in DOMAIN coll : coll[l].customerId # customerId} |-> coll[x]]

\* Lead.findOne({ _id, customerId })
LeadFound_AnyCustomer(coll, leadId, customerId) == leadId \in DOMAIN coll

LeadFound(coll, leadId, customerId) ==
  leadId \in DOMAIN coll /\ coll[leadId].customerId = customerId

\* the ownership check every by-id handler repeats
OwnsOrAdmin_AnyUser(u, customer) == TRUE

OwnsOrAdmin_OwnerOnly(u, customer) == customer.ownerId = u

OwnsOrAdmin(u, customer) == Role(u) = "admin" \/ customer.ownerId = u

\* findById, the 404 and the 403 at the head of every by-id handler:
\* 400 CastError, 404 not found, 403 denied, 200 go on
CustomerGate_HideForeign(u, id) ==
  IF id = MalformedId THEN 400
  ELSE IF id \notin DOMAIN customers \/ ~OwnsOrAdmin(u, customers[id]) THEN 404
  ELSE 200

CustomerGate(u, id) ==
  IF id = MalformedId THEN 400
  ELSE IF id \notin DOMAIN customers THEN 404
  ELSE IF ~OwnsOrAdmin(u, customers[id]) THEN 403
  ELSE 200

GateError(status, castMessage) ==
  CASE status = 400 -> castMessage
    [] status = 404 -> "Customer not found"
    [] status = 403 -> "Access denied"
    [] OTHER -> ""

\* the routes that name a customer
ByIdRoutes ==
  {"GET /customers/:id", "PUT /customers/:id", "DELETE /customers/:id",
   "POST /leads", "GET /leads", "GET /leads/:leadId", "PUT /leads/:leadId",
   "DELETE /leads/:leadId"}

\* the routes that name a lead
LeadIdRoutes == {"GET /leads/:leadId", "PUT /leads/:leadId", "DELETE /leads/:leadId"}

\* ---------------------------------------------------------------- responses
NoList ==
  [items |-> <<>>, total |-> 0, page |-> 0, limit |-> 0, q |-> <<>>,
   filter |-> "", totalPages |-> 0, hasNextPage |-> FALSE, hasPrevPage |-> FALSE]

\* the request a handler was called with: the route, req.user, the :id or
\* :customerId and the :leadId parameters (0 where the route has none), the
\* body and the query string (<<>> where the route reads none)
Request(route, u, cid, lid, body, query) ==
  [route |-> route, user |-> u, cid |-> cid, lid |-> lid, body |-> body,
   query |-> query]

\* what the client gets for it: the status, the error message ("" on success)
\* and, for the two lists, data and pagination
Response(req, status, error, list) ==
  [req |-> req, status |-> status, error |-> error, details |-> {},
   list |-> list]

\* res.status(400).json({ success: false, error, details: errors })
Rejected(req, error, details) ==
  [req |-> req, status |-> 400, error |-> error, details |-> details,
   list |-> NoList]

NoResponse == Response(Request("none", "u1", 0, 0, <<>>, <<>>), 0, "", NoList)

\* --------------------------------------------------- queries of the lists
RECURSIVE SortDesc(_)
\* .sort({ createdAt: -1 }): newest first
SortDesc(S) ==
  IF S = {} THEN <<>>
  ELSE LET m == CHOOSE x \in S : \A y \in S : y <= x
       IN <<m>> \o SortDesc(S \ {m})

Min(a, b) == IF a <= b THEN a ELSE b

\* .skip(skip).limit(limit)
SkipLimit_NoSkip(s, skip, limit) == SubSeq(s, 1, Min(limit, Len(s)))

SkipLimit(s, skip, limit) == SubSeq(s, skip + 1, Min(skip + limit, Len(s)))

\* Math.ceil(total / limit)
CeilDiv(total, limit) == (total + limit - 1) \div limit

\* the $or of the three $regex conditions; a document without the field
\* does not match on it
SearchMatch(doc, q) ==
  \E k \in {"name", "email", "company"} : Has(doc, k) /\ RegexMatch(q, doc[k])

\* customers.js: the filter of GET /api/customers
CustomerQuery_NoOwnerFilter(u, v) ==
  {c \in DOMAIN customers :
     (Has(v, "q") /\ v.q # <<>>) => SearchMatch(customers[c], v.q)}

CustomerQuery(u, v) ==
  {c \in DOMAIN customers :
     /\ Role(u) # "admin" => customers[c].ownerId = u
     /\ (Has(v, "q") /\ v.q # <<>>) => SearchMatch(customers[c], v.q)}

\* part_001: the filter of GET /api/customers/:customerId/leads
LeadQuery_NoStatus(customerId, v) ==
  {l \in DOMAIN leads : leads[l].customerId = customerId}

LeadQuery(customerId, v) ==
  {l \in DOMAIN leads :
     /\ leads[l].customerId = customerId
     /\ (Has(v, "status") /\ v.status # "") => leads[l].status = v.status}

\* the pagination object of res.json
Pagination_FloorPages(page, limit, total) ==
  [currentPage |-> page,
   totalPages |-> total \div limit,
   hasNextPage |-> page < total \div limit,
   hasPrevPage |-> page > 1]

Pagination_NextUnlessLast(page, limit, total) ==
  [currentPage |-> page,
   totalPages |-> CeilDiv(total, limit),
   hasNextPage |-> page # CeilDiv(total, limit),
   hasPrevPage |-> page > 1]

Pagination(page, limit, total) ==
  [currentPage |-> page,
   totalPages |-> CeilDiv(total, limit),
   hasNextPage |-> page < CeilDiv(total, limit),
   hasPrevPage |-> page > 1]

\* data of res.json for the items found and the count total
Listed(items, total, v) ==
  LET p == Pagination(v.page, v.limit, total)
  IN [items |-> items,
      total |-> total,
      page |-> p.currentPage,
      limit |-> v.limit,
      q |-> IF Has(v, "q") THEN v.q ELSE <<>>,
      filter |-> IF Has(v, "status") THEN v.status ELSE "",
      totalPages |-> p.totalPages,
      hasNextPage |-> p.hasNextPage,
      hasPrevPage |-> p.hasPrevPage]

ListResult(matching, v) ==
  Listed(SkipLimit(SortDesc(matching), (v.page - 1) * v.limit, v.limit),
         Cardinality(matching), v)

\* the browser before the page is loaded: token is localStorage's 'token'
\* ("" for none), user the state of AuthProvider ("" for null), cachedProfile
\* the module variable of the api service, requests the auth requests in
\* flight, leaving whether window.location.href has been assigned
NoSession ==
  [token |-> "", user |-> "", cachedProfile |-> "", loading |-> TRUE,
   mounted |-> FALSE, requests |-> {}, leaving |-> FALSE]

\* the Customers page before it is opened: issued counts the list requests
\* sent, pending are those in flight, shown is the request whose response is
\* on display (n = 0 for none)
NoView ==
  [open |-> FALSE, searchTerm |-> <<>>, currentPage |-> 1, totalPages |-> 1,
   loading |-> TRUE, issued |-> 0, pending |-> {},
   shown |-> [n |-> 0, q |-> <<>>, page |-> 0]]

\* ------------------------------------------------------------------- Init
\* the handler's locals between awaits: where it stands, req.params, the
\* status it answered with once done
IdleDelete == [pc |-> "idle", cid |-> 0, status |-> 0, deletedCount |-> 0]

IdlePost == [pc |-> "idle", cid |-> 0, lid |-> 0, status |-> 0, data |-> <<>>]

\* no handler in flight: at counts the awaits of the handler passed so far,
\* items and total are what its find and its count returned, sent lists the
\* responses it has sent, thrown is the error its catch block got
IdleCall ==
  [at |-> 0, req |-> Request("none", "", 0, 0, <<>>, <<>>), items |-> <<>>,
   total |-> 0, sent |-> <<>>, thrown |-> ""]

\* no request on its way: at counts the middleware of the route passed so
\* far, trace lists the stages that ran, status is the answer once sent
IdlePipe ==
  [at |-> 0, req |-> Request("none", "", 0, 0, <<>>, <<>>), token |-> "",
   trace |-> <<>>, status |-> 0]

Init ==
  /\ customers = <<>>
  /\ leads = <<>>
  /\ nextCustomerId = 1
  /\ nextLeadId = 1
  /\ resp = NoResponse
  /\ del = IdleDelete
  /\ post = IdlePost
  /\ pipe = IdlePipe
  /\ call = IdleCall
  /\ auth = NoSession
  /\ view = NoView

\* ------------------------------------------------- customer route handlers
\* POST /api/customers
CreateCustomer(u, body) ==
  LET req == Request("POST /customers", u, 0, 0, body, <<>>)
      doc == CustomerDoc(CustomerData(CustomerValue(body), u))
      id == nextCustomerId
  IN /\ resp = NoResponse
     /\ UNCHANGED <<leads, nextLeadId, inflight>>
     /\ IF CustomerErrors(body) # {}
          THEN /\ resp' = Rejected(req, "Validation failed", CustomerDetails(body))
               /\ UNCHANGED <<customers, nextCustomerId>>
        ELSE IF DuplicateKey(customers, doc, id)
          THEN /\ resp' = Response(req, 400,
                                   "Customer with this email already exists", NoList)
               /\ UNCHANGED <<customers, nextCustomerId>>
        ELSE IF ~CustomerDocValid(doc)
          THEN /\ resp' = Response(req, 500,
                                   "Failed to create customer", NoList)
               /\ UNCHANGED <<customers, nextCustomerId>>
        ELSE /\ id <= MaxCustomers
             /\ customers' = Insert(customers, id, doc)
             /\ nextCustomerId' = id + 1
             /\ resp' = Response(req, 201, "", NoList)

\* GET /api/customers
ListCustomers(u, query) ==
  LET req == Request("GET /customers", u, 0, 0, <<>>, query)
      v == QueryValue(query)
  IN /\ resp = NoResponse
     /\ UNCHANGED <<store, inflight>>
     /\ resp' = IF PaginationErrors(query) # {}
                  THEN Rejected(req, "Query validation failed",
                                PaginationDetails(query))
                  ELSE Response(req, 200, "",
                                ListResult(CustomerQuery(u, v), v))

\* GET /api/customers/:id
GetCustomer(u, id) ==
  LET req == Request("GET /customers/:id", u, id, 0, <<>>, <<>>)
      gate == CustomerGate(u, id)
  IN /\ resp = NoResponse
     /\ UNCHANGED <<store, inflight>>
     /\ resp' = Response(req, gate,
                         GateError(gate, "Invalid customer ID"), NoList)

\* PUT /api/customers/:id
UpdateCustomer(u, id, body) ==
  LET req == Request("PUT /customers/:id", u, id, 0, body, <<>>)
      gate == CustomerGate(u, id)
      update == CustomerValue(body)
      after == FindByIdAndUpdate(customers, id, update, CustomerPaths)
  IN /\ resp = NoResponse
     /\ UNCHANGED <<leads, nextCustomerId, nextLeadId, inflight>>
     /\ IF CustomerErrors(body) # {}
          THEN /\ resp' = Rejected(req, "Validation failed", CustomerDetails(body))
               /\ UNCHANGED customers
        ELSE IF gate # 200
          THEN /\ resp' = Response(req, gate,
                                   GateError(gate, "Invalid customer ID"), NoList)
               /\ UNCHANGED customers
        ELSE IF DuplicateKey(customers, update, id)
          THEN /\ resp' = Response(req, 400,
                                   "Customer with this email already exists", NoList)
               /\ UNCHANGED customers
        ELSE /\ customers' = after
             /\ resp' = Response(req, 200, "", NoList)

\* DELETE /api/customers/:id
DeleteCustomer(u, id) ==
  LET req == Request("DELETE /customers/:id", u, id, 0, <<>>, <<>>)
      gate == CustomerGate(u, id)
  IN /\ resp = NoResponse
     /\ UNCHANGED <<nextCustomerId, nextLeadId, inflight>>
     /\ resp' = Response(req, gate,
                         GateError(gate, "Invalid customer ID"), NoList)
     /\ IF gate # 200
          THEN UNCHANGED <<customers, leads>>
          ELSE /\ leads' = LeadDeleteMany(leads, id)
               /\ customers' = FindByIdAndDelete(customers, id)

\* ----------------------------------------------------- lead route handlers
\* POST /api/customers/:customerId/leads
CreateLead(u, cid, body) ==
  LET req == Request("POST /leads", u, cid, 0, body, <<>>)
      gate == CustomerGate(u, cid)
      id == nextLeadId
  IN /\ resp = NoResponse
     /\ UNCHANGED <<customers, nextCustomerId, inflight>>
     /\ IF LeadErrors(body) # {}
          THEN /\ resp' = Rejected(req, "Validation failed", LeadDetails(body))
               /\ UNCHANGED <<leads, nextLeadId>>
        ELSE IF gate # 200
          THEN /\ resp' = Response(req, gate,
                                   GateError(gate, "Invalid customer ID"), NoList)
               /\ UNCHANGED <<leads, nextLeadId>>
        ELSE /\ id <= MaxLeads
             /\ leads' = Insert(leads, id, LeadDoc(LeadData(LeadValue(body), cid)))
             /\ nextLeadId' = id + 1
             /\ resp' = Response(req, 201, "", NoList)

\* GET /api/customers/:customerId/leads
ListLeads(u, cid, query) ==
  LET req == Request("GET /leads", u, cid, 0, <<>>, query)
      gate == CustomerGate(u, cid)
      v == QueryValue(query)
  IN /\ resp = NoResponse
     /\ UNCHANGED <<store, inflight>>
     /\ resp' = IF LeadFilterErrors(query) # {}
                  THEN Rejected(req, "Query validation failed",
                                LeadFilterDetails(query))
                ELSE IF gate # 200
                  THEN Response(req, gate,
                                GateError(gate, "Invalid customer ID"), NoList)
                ELSE Response(req, 200, "",
                              ListResult(LeadQuery(cid, v), v))

\* what follows the gate in the three handlers of one lead: 400 CastError on
\* the lead id, 404 when findOne({_id, customerId}) finds nothing, else 200
LeadLookup(cid, lid) ==
  IF lid = MalformedId THEN 400
  ELSE IF ~LeadFound(leads, lid, cid) THEN 404
  ELSE 200

LeadError(gate, found) ==
  IF gate # 200 THEN GateError(gate, "Invalid lead or customer ID")
  ELSE CASE found = 400 -> "Invalid lead or customer ID"
         [] found = 404 -> "Lead not found"
         [] OTHER -> ""

\* GET /api/customers/:customerId/leads/:leadId
GetLead(u, cid, lid) ==
  LET req == Request("GET /leads/:leadId", u, cid, lid, <<>>, <<>>)
      gate == CustomerGate(u, cid)
      found == LeadLookup(cid, lid)
  IN /\ resp = NoResponse
     /\ UNCHANGED <<store, inflight>>
     /\ resp' = Response(req, IF gate # 200 THEN gate ELSE found,
                         LeadError(gate, found), NoList)

\* PUT /api/customers/:customerId/leads/:leadId
UpdateLead(u, cid, lid, body) ==
  LET req == Request("PUT /leads/:leadId", u, cid, lid, body, <<>>)
      gate == CustomerGate(u, cid)
      found == LeadLookup(cid, lid)
  IN /\ resp = NoResponse
     /\ UNCHANGED <<customers, nextCustomerId, nextLeadId, inflight>>
     /\ IF LeadErrors(body) # {}
          THEN /\ resp' = Rejected(req, "Validation failed", LeadDetails(body))
               /\ UNCHANGED leads
        ELSE /\ resp' = Response(req, IF gate # 200 THEN gate ELSE found,
                                 LeadError(gate, found), NoList)
             /\ IF gate = 200 /\ found = 200
                  THEN leads' = FindByIdAndUpdate(leads, lid, LeadValue(body), LeadPaths)
                  ELSE UNCHANGED leads

\* DELETE /api/customers/:customerId/leads/:leadId
DeleteLead(u, cid, lid) ==
  LET req == Request("DELETE /leads/:leadId", u, cid, lid, <<>>, <<>>)
      gate == CustomerGate(u, cid)
      found == LeadLookup(cid, lid)
  IN /\ resp = NoResponse
     /\ UNCHANGED <<customers, nextCustomerId, nextLeadId, inflight>>
     /\ resp' = Response(req, IF gate # 200 THEN gate ELSE found,
                         LeadError(gate, found), NoList)
     /\ IF gate = 200 /\ found = 200
          THEN leads' = FindByIdAndDelete(leads, lid)
          ELSE UNCHANGED leads

\* res.json(...) has gone out to the client: the server takes the next request.
\* No handler reads resp, so serving the next request only after this step
\* leaves out no combination of store, request and response.
Deliver ==
  /\ resp # NoResponse
  /\ resp' = NoResponse
  /\ UNCHANGED <<store, inflight>>

\* ------------------------------------------------------ every request whole
Next ==
  \/ Deliver
  \/ \E u \in Users, body \in CustomerBodies : CreateCustomer(u, body)
  \/ \E u \in Users, query \in CustomerQueries : ListCustomers(u, query)
  \/ \E u \in Users, id \in CustomerIdInputs : GetCustomer(u, id)
  \/ \E u \in Users, id \in CustomerIdInputs, body \in CustomerBodies :
       UpdateCustomer(u, id, body)
  \/ \E u \in Users, id \in CustomerIdInputs : DeleteCustomer(u, id)
  \/ \E u \in Users, cid \in CustomerIdInputs, body \in LeadBodies :
       CreateLead(u, cid, body)
  \/ \E u \in Users, cid \in CustomerIdInputs, query \in LeadQueries :
       ListLeads(u, cid, query)
  \/ \E u \in Users, cid \in CustomerIdInputs, lid \in LeadIdInputs :
       GetLead(u, cid, lid)
  \/ \E u \in Users, cid \in CustomerIdInputs, lid \in LeadIdInputs,
        body \in LeadBodies : UpdateLead(u, cid, lid, body)
  \/ \E u \in Users, cid \in CustomerIdInputs, lid \in LeadIdInputs :
       DeleteLead(u, cid, lid)

\* requests served one at a time, each run to completion
Spec == Init /\ [][Next]_vars

\* ------------------------------------- two handlers taken await by await
\* DELETE /api/customers/:id up to its first write: findById, 404, 403
DeleteFind(u, id) ==
  LET gate == CustomerGate(u, id)
  IN /\ del.pc \in {"idle", "done", "crashed"}
     /\ del' = IF gate = 200
                 THEN [pc |-> "deleteLeads", cid |-> id, status |-> 0, deletedCount |-> 0]
                 ELSE [pc |-> "done", cid |-> id, status |-> gate, deletedCount |-> 0]
     /\ UNCHANGED <<store, resp, post, pipe, call, client>>

\* await Lead.deleteMany({ customerId: req.params.id })
DeleteLeads_CustomerFirst ==
  /\ del.pc = "deleteLeads"
  /\ customers' = FindByIdAndDelete(customers, del.cid)
  /\ del' = [del EXCEPT !.pc = "deleteCustomer"]
  /\ UNCHANGED <<leads, nextCustomerId, nextLeadId, resp, post, pipe, call, client>>

DeleteLeads ==
  /\ del.pc = "deleteLeads"
  /\ leads' = LeadDeleteMany(leads, del.cid)
  /\ del' = [del EXCEPT !.pc = "deleteCustomer",
                        !.deletedCount = Cardinality(DOMAIN leads)
                                         - Cardinality(DOMAIN leads')]
  /\ UNCHANGED <<customers, nextCustomerId, nextLeadId, resp, post, pipe, call, client>>

\* await Customer.findByIdAndDelete(req.params.id); res.json(...)
DeleteDone ==
  /\ del.pc = "deleteCustomer"
  /\ customers' = FindByIdAndDelete(customers, del.cid)
  /\ del' = [del EXCEPT !.pc = "done", !.status = 200]
  /\ UNCHANGED <<leads, nextCustomerId, nextLeadId, resp, post, pipe, call, client>>

\* the process stops between the two deletions
DeleteCrash ==
  /\ del.pc = "deleteCustomer"
  /\ del' = [del EXCEPT !.pc = "crashed"]
  /\ UNCHANGED <<store, resp, post, pipe, call, client>>

\* POST /api/customers/:customerId/leads up to its write: validate, findById,
\* 404, 403
PostFind(u, cid, body) ==
  LET gate == CustomerGate(u, cid)
  IN /\ post.pc \in {"idle", "done"}
     /\ post' = IF LeadErrors(body) # {}
                  THEN [pc |-> "done", cid |-> cid, lid |-> 0, status |-> 400, data |-> <<>>]
                ELSE IF gate # 200
                  THEN [pc |-> "done", cid |-> cid, lid |-> 0, status |-> gate, data |-> <<>>]
                ELSE [pc |-> "save", cid |-> cid, lid |-> 0, status |-> 0,
                      data |-> LeadData(LeadValue(body), cid)]
     /\ UNCHANGED <<store, resp, del, pipe, call, client>>

\* await lead.save(); res.status(201).json(...)
PostSave ==
  /\ post.pc = "save"
  /\ nextLeadId <= MaxLeads
  /\ leads' = Insert(leads, nextLeadId, LeadDoc(post.data))
  /\ nextLeadId' = nextLeadId + 1
  /\ post' = [post EXCEPT !.pc = "done", !.status = 201, !.lid = nextLeadId]
  /\ UNCHANGED <<customers, nextCustomerId, resp, del, pipe, call, client>>

RaceCustomerBodies == {[name |-> NameAl, email |-> EmailA]}
RaceLeadBodies == {[title |-> TitleDeal], [title |-> TitleDeal, value |-> -5]}

NextRace ==
  \/ Deliver
  \/ \E u \in Users, body \in RaceCustomerBodies : CreateCustomer(u, body)
  \/ \E u \in Users, id \in CustomerIdInputs : DeleteFind(u, id)
  \/ DeleteLeads
  \/ DeleteDone
  \/ DeleteCrash
  \/ \E u \in Users, cid \in CustomerIdInputs, body \in RaceLeadBodies :
       PostFind(u, cid, body)
  \/ PostSave

\* a customer delete and a lead create interleaved at their awaits, the
\* delete possibly cut short between its two writes
SpecRace == Init /\ [][NextRace]_vars

\* ----------------------------------------- handlers from await to await
\* the awaits of each handler, in the order of its try block
Awaits(route) ==
  CASE route = "POST /customers" -> <<"save", "populate">>
    [] route = "GET /customers" -> <<"find", "countDocuments", "leadCounts">>
    [] route = "GET /customers/:id" -> <<"findById", "find">>
    [] route = "PUT /customers/:id" -> <<"findById", "findByIdAndUpdate">>
    [] route = "DELETE /customers/:id" ->
         <<"findById", "deleteMany", "findByIdAndDelete">>
    [] route = "POST /leads" -> <<"findById", "save", "populate">>
    [] route = "GET /leads" -> <<"findById", "find", "countDocuments">>
    [] route = "GET /leads/:leadId" -> <<"findById", "findOne">>
    [] route = "PUT /leads/:leadId" -> <<"findById", "findOneAndUpdate">>
    [] route = "DELETE /leads/:leadId" -> <<"findById", "findOneAndDelete">>
    [] OTHER -> <<>>

Routes ==
  {"POST /customers", "GET /customers", "GET /customers/:id",
   "PUT /customers/:id", "DELETE /customers/:id", "POST /leads", "GET /leads",
   "GET /leads/:leadId", "PUT /leads/:leadId", "DELETE /leads/:leadId"}

\* the await the handler in flight stands before
Awaiting ==
  IF call.at \in 1..Len(Awaits(call.req.route))
    THEN Awaits(call.req.route)[call.at]
  ELSE IF call.at = 0 THEN "idle" ELSE "done"

\* one res.status(status).json(...): found is whether the document in data
\* is one (not null), list the data of a list
Json(status, error, found, list) ==
  [status |-> status, success |-> error = "", error |-> error, found |-> found,
   list |-> list]

\* the message of the last res.status(500) of each catch block
FailedMessage(route) ==
  CASE route = "POST /customers" -> "Failed to create customer"
    [] route = "GET /customers" -> "Failed to fetch customers"
    [] route = "GET /customers/:id" -> "Failed to fetch customer"
    [] route = "PUT /customers/:id" -> "Failed to update customer"
    [] route = "DELETE /customers/:id" -> "Failed to delete customer"
    [] route = "POST /leads" -> "Failed to create lead"
    [] route = "GET /leads" -> "Failed to fetch leads"
    [] route = "GET /leads/:leadId" -> "Failed to fetch lead"
    [] route = "PUT /leads/:leadId" -> "Failed to update lead"
    [] OTHER -> "Failed to delete lead"

CastMessage(route) ==
  IF route \in LeadIdRoutes THEN "Invalid lead or customer ID"
  ELSE "Invalid customer ID"

\* the catch block: the responses it sends for the error caught
Catch_NoReturn(route, error) ==
  IF error = "CastError" /\ route \notin {"POST /customers", "GET /customers"}
    THEN <<Json(400, CastMessage(route), FALSE, NoList),
           Json(500, FailedMessage(route), FALSE, NoList)>>
  ELSE IF error = "E11000" /\ route \in {"POST /customers", "PUT /customers/:id"}
    THEN <<Json(400, "Customer with this email already exists", FALSE, NoList)>>
  ELSE <<Json(500, FailedMessage(route), FALSE, NoList)>>

Catch(route, error) ==
  IF error = "CastError" /\ route \notin {"POST /customers", "GET /customers"}
    THEN <<Json(400, CastMessage(route), FALSE, NoList)>>
  ELSE IF error = "E11000" /\ route \in {"POST /customers", "PUT /customers/:id"}
    THEN <<Json(400, "Customer with this email already exists", FALSE, NoList)>>
  ELSE <<Json(500, FailedMessage(route), FALSE, NoList)>>

\* what becomes of the handler in flight: on to its next await, out with a
\* response, or into its catch block
Go == [call EXCEPT !.at = @ + 1]

Reply(json) ==
  [call EXCEPT !.at = Len(Awaits(call.req.route)) + 1, !.sent = Append(@, json)]

Caught(error) ==
  [call EXCEPT !.at = Len(Awaits(call.req.route)) + 1, !.thrown = error,
               !.sent = @ \o Catch(call.req.route, error)]

\* the handler is entered: validate or validateQuery has passed the request
Begin(route, u, cid, lid, body, query) ==
  LET req == Request(route, u, cid, lid, body, query)
  IN /\ Awaiting = "idle"
     /\ SchemaOk(req)
     /\ route = "POST /customers" => nextCustomerId <= MaxCustomers
     /\ route = "POST /leads" => nextLeadId <= MaxLeads
     /\ call' = [IdleCall EXCEPT !.at = 1, !.req = req]
     /\ UNCHANGED <<store, resp, del, post, pipe, client>>

\* the await the handler stands before resolves
Await ==
  LET r == call.req
      v == QueryValue(r.query)
      gate == CustomerGate(r.user, r.cid)
      lookup == LeadLookup(r.cid, r.lid)
      matching == IF r.route = "GET /customers" THEN CustomerQuery(r.user, v)
                  ELSE LeadQuery(r.cid, v)
      ok == Json(200, "", TRUE, NoList)
      leadReply == IF lookup = 404 THEN Reply(Json(404, "Lead not found", FALSE, NoList))
                   ELSE Reply(ok)
  IN /\ Awaiting \notin {"idle", "done"}
     /\ UNCHANGED <<resp, del, post, pipe, client>>
     /\ CASE Awaiting = "findById" ->
               /\ call' = IF gate = 400 THEN Caught("CastError")
                          ELSE IF gate # 200
                            THEN Reply(Json(gate, GateError(gate, ""), FALSE, NoList))
                          ELSE Go
               /\ UNCHANGED store
          [] Awaiting = "save" /\ r.route = "POST /customers" ->
               /\ nextCustomerId <= MaxCustomers
               /\ customers' = Insert(customers, nextCustomerId,
                                      CustomerDoc(CustomerData(CustomerValue(r.body),
                                                               r.user)))
               /\ nextCustomerId' = nextCustomerId + 1
               /\ call' = Go
               /\ UNCHANGED <<leads, nextLeadId>>
          [] Awaiting = "save" /\ r.route = "POST /leads" ->
               /\ nextLeadId <= MaxLeads
               /\ leads' = Insert(leads, nextLeadId,
                                  LeadDoc(LeadData(LeadValue(r.body), r.cid)))
               /\ nextLeadId' = nextLeadId + 1
               /\ call' = Go
               /\ UNCHANGED <<customers, nextCustomerId>>
          [] Awaiting = "populate" ->
               /\ call' = Reply(Json(201, "", TRUE, NoList))
               /\ UNCHANGED store
          [] Awaiting = "find" ->
               /\ call' = IF r.route = "GET /customers/:id" THEN Reply(ok)
                          ELSE [Go EXCEPT !.items =
                                  SkipLimit(SortDesc(matching),
                                            (v.page - 1) * v.limit, v.limit)]
               /\ UNCHANGED store
          [] Awaiting = "countDocuments" ->
               /\ call' =
                    IF r.route = "GET /leads"
                      THEN Reply(Json(200, "", TRUE,
                                      Listed(call.items, Cardinality(matching), v)))
                    ELSE [Go EXCEPT !.total = Cardinality(matching)]
               /\ UNCHANGED store
          [] Awaiting = "leadCounts" ->
               /\ call' = Reply(Json(200, "", TRUE,
                                     Listed(call.items, call.total, v)))
               /\ UNCHANGED store
          [] Awaiting = "findByIdAndUpdate" ->
               /\ customers' = FindByIdAndUpdate(customers, r.cid,
                                                 CustomerValue(r.body), CustomerPaths)
               /\ call' = Reply(Json(200, "", r.cid \in DOMAIN customers, NoList))
               /\ UNCHANGED <<leads, nextCustomerId, nextLeadId>>
          [] Awaiting = "deleteMany" ->
               /\ leads' = LeadDeleteMany(leads, r.cid)
               /\ call' = Go
               /\ UNCHANGED <<customers, nextCustomerId, nextLeadId>>
          [] Awaiting = "findByIdAndDelete" ->
               /\ customers' = FindByIdAndDelete(customers, r.cid)
               /\ call' = Reply(Json(200, "", FALSE, NoList))
               /\ UNCHANGED <<leads, nextCustomerId, nextLeadId>>
          [] Awaiting = "findOne" ->
               /\ call' = IF lookup = 400 THEN Caught("CastError") ELSE leadReply
               /\ UNCHANGED store
          [] Awaiting = "findOneAndUpdate" ->
               /\ call' = IF lookup = 400 THEN Caught("CastError") ELSE leadReply
               /\ leads' = IF lookup = 200
                              THEN FindByIdAndUpdate(leads, r.lid, LeadValue(r.body),
                                                     LeadPaths)
                            ELSE leads
               /\ UNCHANGED <<customers, nextCustomerId, nextLeadId>>
          [] OTHER ->
               /\ call' = IF lookup = 400 THEN Caught("CastError") ELSE leadReply
               /\ leads' = IF lookup = 200 THEN FindByIdAndDelete(leads, r.lid)
                            ELSE leads
               /\ UNCHANGED <<customers, nextCustomerId, nextLeadId>>

\* the await the handler stands before rejects: the driver lost its
\* connection, the server gave an error
Throw ==
  /\ Awaiting \notin {"idle", "done"}
  /\ call' = Caught("MongoNetworkError")
  /\ UNCHANGED <<store, resp, del, post, pipe, client>>

\* the async function of the handler returns, its responses on the socket
Return ==
  /\ Awaiting = "done"
  /\ call' = IdleCall
  /\ UNCHANGED <<store, resp, del, post, pipe, client>>

AwaitBodies(route) ==
  IF route \in {"POST /customers", "PUT /customers/:id"}
    THEN {[name |-> NameAl, email |-> EmailA]}
  ELSE IF route = "POST /leads" THEN {[title |-> TitleDeal]}
  ELSE IF route = "PUT /leads/:leadId"
    THEN {[title |-> TitleDeal, status |-> "Contacted"]}
  ELSE {<<>>}

AwaitQueries(route) ==
  IF route \in {"GET /customers", "GET /leads"}
    THEN {<<>>, [page |-> <<"1">>, limit |-> <<"1">>]}
  ELSE {<<>>}

AwaitIds(route, ids, inputs) ==
  IF route \in ids THEN inputs ELSE {0}

NextFail ==
  \/ \E route \in Routes, u \in Users :
       \E cid \in AwaitIds(route, ByIdRoutes, CustomerIdInputs),
          lid \in AwaitIds(route, LeadIdRoutes, LeadIdInputs),
          body \in AwaitBodies(route), query \in AwaitQueries(route) :
         Begin(route, u, cid, lid, body, query)
  \/ Await
  \/ Throw
  \/ Return

\* one handler at a time, each of its awaits resolving or rejecting
SpecFail == Init /\ [][NextFail]_vars

\* the handlers that read the store at one await and use what they read at
\* a later one
TwoStepRoutes == {"GET /customers", "GET /leads", "PUT /customers/:id"}

NextInterleave ==
  \/ Deliver
  \/ \E u \in Users, body \in RaceCustomerBodies : CreateCustomer(u, body)
  \/ \E u \in Users, id \in 1..MaxCustomers : DeleteCustomer(u, id)
  \/ \E u \in Users, cid \in 1..MaxCustomers, body \in AwaitBodies("POST /leads") :
       CreateLead(u, cid, body)
  \/ \E u \in Users, cid \in 1..MaxCustomers, lid \in 1..MaxLeads :
       DeleteLead(u, cid, lid)
  \/ \E route \in TwoStepRoutes, u \in Users :
       \E cid \in AwaitIds(route, ByIdRoutes, 1..MaxCustomers),
          body \in AwaitBodies(route), query \in AwaitQueries(route) :
         Begin(route, u, cid, 0, body, query)
  \/ Await
  \/ Return

\* a list or an update taken await by await while other requests, each run
\* whole, are served between its awaits
SpecInterleave == Init /\ [][NextInterleave]_vars

\* ------------------------------------------ pagination of larger counts
MaxPage == 4
MaxLimit == 11
MaxTotal == 26

\* the answer of a list handler whose countDocuments(query) gave total, the
\* documents themselves left out
Paginate(route, page, limit, total) ==
  LET v == [page |-> page, limit |-> limit]
  IN /\ resp = NoResponse
     /\ resp' = Response(Request(route, "adm", 0, 0, <<>>, <<>>), 200, "",
                         Listed(<<>>, total, v))
     /\ UNCHANGED <<store, inflight>>

NextPage ==
  \/ Deliver
  \/ \E route \in {"GET /customers", "GET /leads"}, page \in 1..MaxPage,
        limit \in 1..MaxLimit, total \in 0..MaxTotal :
       Paginate(route, page, limit, total)

\* the pagination object over pages, limits and counts the two collections
\* above are too small for
SpecPage == Init /\ [][NextPage]_vars

\* ------------------------------------------- a request through its route
\* router.post('/', authenticateToken, validate(customerSchema), handler):
\* Express calls the middleware of a route in the order it is registered
Middleware_ValidateFirst(route) == <<"validate", "authenticateToken", "handler">>

Middleware(route) == <<"authenticateToken", "validate", "handler">>

PipeRoutes == {"POST /customers", "PUT /customers/:id", "POST /leads"}

\* a bearer token is the user it was issued to; "forged" verifies as nobody
\* and "" is a request without the Authorization header
Tokens == Users \cup {"forged", ""}

VerifyToken(token) == token \in Users

PipeBodies(route) ==
  IF route = "POST /leads"
    THEN {[title |-> TitleDeal], [title |-> TitleDeal, value |-> -5]}
  ELSE {[name |-> NameAl, email |-> EmailA],
        [name |-> <<"A">>, email |-> <<"a", "b">>]}

\* the middleware the request stands before
Stage == IF pipe.at = 0 THEN "idle"
         ELSE IF pipe.at > Len(Middleware(pipe.req.route)) THEN "done"
         ELSE Middleware(pipe.req.route)[pipe.at]

\* res.status(...).json(...) without next(): no later middleware runs
Answer(status, trace) ==
  [pipe EXCEPT !.at = Len(Middleware(pipe.req.route)) + 1,
               !.status = status, !.trace = trace]

Receive(route, token, cid, body) ==
  /\ pipe = IdlePipe
  /\ pipe' = [IdlePipe EXCEPT !.at = 1, !.token = token,
                              !.req = Request(route, "", cid, 0, body, <<>>)]
  /\ UNCHANGED <<store, resp, del, post, call, client>>

\* authenticateToken: next() with req.user set, or 401
Authenticate ==
  /\ Stage = "authenticateToken"
  /\ pipe' = IF VerifyToken(pipe.token)
               THEN [pipe EXCEPT !.at = @ + 1, !.req.user = pipe.token,
                                 !.trace = Append(@, "authentication")]
               ELSE Answer(401, Append(pipe.trace, "authentication"))
  /\ UNCHANGED <<store, resp, del, post, call, client>>

\* validate(schema): next() with req.body = value, or 400
Validate ==
  /\ Stage = "validate"
  /\ pipe' = IF SchemaOk(pipe.req)
               THEN [pipe EXCEPT !.at = @ + 1,
                                 !.trace = Append(@, "validation")]
               ELSE Answer(400, Append(pipe.trace, "validation"))
  /\ UNCHANGED <<store, resp, del, post, call, client>>

\* the route's handler: the ownership check of the by-id routes, then the
\* write
Handle ==
  LET req == pipe.req
      gate == CustomerGate(req.user, req.cid)
      checked == Append(pipe.trace, "access-control")
  IN /\ Stage = "handler"
     /\ UNCHANGED <<resp, del, post, call, client>>
     /\ CASE req.route = "POST /customers" ->
               /\ nextCustomerId <= MaxCustomers
               /\ customers' = Insert(customers, nextCustomerId,
                                      CustomerDoc(CustomerData(CustomerValue(req.body),
                                                               req.user)))
               /\ nextCustomerId' = nextCustomerId + 1
               /\ pipe' = Answer(201, Append(pipe.trace, "handler"))
               /\ UNCHANGED <<leads, nextLeadId>>
          [] req.route = "PUT /customers/:id" ->
               /\ customers' =
                    IF gate = 200
                      THEN FindByIdAndUpdate(customers, req.cid,
                                             CustomerValue(req.body), CustomerPaths)
                    ELSE customers
               /\ pipe' = IF gate = 200 THEN Answer(200, Append(checked, "handler"))
                          ELSE Answer(gate, checked)
               /\ UNCHANGED <<leads, nextCustomerId, nextLeadId>>
          [] OTHER ->
               IF gate = 200
                 THEN /\ nextLeadId <= MaxLeads
                      /\ leads' = Insert(leads, nextLeadId,
                                         LeadDoc(LeadData(LeadValue(req.body),
                                                          req.cid)))
                      /\ nextLeadId' = nextLeadId + 1
                      /\ pipe' = Answer(201, Append(checked, "handler"))
                      /\ UNCHANGED <<customers, nextCustomerId>>
               ELSE /\ pipe' = Answer(gate, checked)
                    /\ UNCHANGED store

\* the response is sent and the connection is free for the next request
Finish ==
  /\ Stage = "done"
  /\ pipe' = IdlePipe
  /\ UNCHANGED <<store, resp, del, post, call, client>>

NextPipe ==
  \/ \E route \in PipeRoutes, token \in Tokens, cid \in CustomerIdInputs :
       \E body \in PipeBodies(route) : Receive(route, token, cid, body)
  \/ Authenticate
  \/ Validate
  \/ Handle
  \/ Finish

\* requests taken one at a time through authenticateToken, validate and the
\* handler of their route
SpecPipe == Init /\ [][NextPipe]_vars

\* ------------------------------------------------ the client: AuthProvider
MaxRequests == 2

\* one request of the api service: who and ok are the credentials of a login
\* or register and whether the server accepts them, token the Authorization
\* header the request interceptor gave it
AuthRequest(kind, who, ok, token) ==
  [kind |-> kind, who |-> who, ok |-> ok, token |-> token]

\* what the server may answer: a login or register the user and a token or
\* an error, any other request 401 when its token is missing or no longer
\* good
AuthOutcomes(r) ==
  IF r.kind \in {"login", "register"}
    THEN IF r.ok THEN {[status |-> 200, user |-> r.who]}
         ELSE {[status |-> 400, user |-> ""], [status |-> 401, user |-> ""]}
  ELSE IF VerifyToken(r.token)
    THEN {[status |-> 200, user |-> r.token], [status |-> 401, user |-> ""]}
  ELSE {[status |-> 401, user |-> ""]}

\* api.interceptors.response: the error branch
Intercept(a, o) ==
  IF o.status = 401 THEN [a EXCEPT !.token = "", !.leaving = TRUE] ELSE a

\* the code after the await of the request, by kind: getProfile and the
\* then/catch/finally of the effect; login and register; the pages
Settle(a, r, o) ==
  IF r.kind = "me"
    THEN IF o.status = 200
           THEN [a EXCEPT !.cachedProfile = o.user, !.user = o.user,
                          !.loading = FALSE]
         ELSE [a EXCEPT !.token = "", !.loading = FALSE]
  ELSE IF r.kind \in {"login", "register"} /\ o.status = 200
    THEN [a EXCEPT !.token = o.user, !.user = o.user]
  ELSE a

Send(a, r) == [a EXCEPT !.requests = @ \cup {r}]

\* authAPI.getProfile
GetProfile(a) ==
  IF a.cachedProfile # ""
    THEN [a EXCEPT !.user = a.cachedProfile, !.loading = FALSE]
  ELSE Send(a, AuthRequest("me", "", TRUE, a.token))

\* the effect of AuthProvider, run once when the page has loaded
Mount ==
  /\ ~auth.mounted
  /\ auth' = IF auth.token # "" THEN GetProfile([auth EXCEPT !.mounted = TRUE])
             ELSE [auth EXCEPT !.mounted = TRUE, !.loading = FALSE]
  /\ UNCHANGED <<store, resp, del, post, pipe, call, view>>

Login(who, ok) ==
  /\ auth.mounted
  /\ Cardinality(auth.requests) < MaxRequests
  /\ auth' = Send(auth, AuthRequest("login", who, ok, ""))
  /\ UNCHANGED <<store, resp, del, post, pipe, call, view>>

Register(who, ok) ==
  /\ auth.mounted
  /\ Cardinality(auth.requests) < MaxRequests
  /\ auth' = Send(auth, AuthRequest("register", who, ok, ""))
  /\ UNCHANGED <<store, resp, del, post, pipe, call, view>>

\* a request of customersAPI or leadsAPI
Fetch ==
  /\ auth.mounted
  /\ Cardinality(auth.requests) < MaxRequests
  /\ auth' = Send(auth, AuthRequest("api", "", TRUE, auth.token))
  /\ UNCHANGED <<store, resp, del, post, pipe, call, view>>

Logout ==
  /\ auth.mounted
  /\ auth' = [auth EXCEPT !.token = "", !.user = ""]
  /\ UNCHANGED <<store, resp, del, post, pipe, call, view>>

\* the response to r arrives with outcome o
Respond(r, o) ==
  /\ r \in auth.requests
  /\ auth' = Settle(Intercept([auth EXCEPT !.requests = @ \ {r}], o), r, o)
  /\ UNCHANGED <<store, resp, del, post, pipe, call, view>>

\* the page is loaded anew (window.location.href, or the user): the state
\* of React and of the modules is gone, localStorage stays
Reload ==
  /\ auth.mounted
  /\ auth' = [NoSession EXCEPT !.token = auth.token]
  /\ UNCHANGED <<store, resp, del, post, pipe, call, view>>

NextAuth ==
  \/ Mount
  \/ \E who \in Users, ok \in BOOLEAN : Login(who, ok)
  \/ \E who \in Users, ok \in BOOLEAN : Register(who, ok)
  \/ Fetch
  \/ Logout
  \/ \E r \in auth.requests : \E o \in AuthOutcomes(r) : Respond(r, o)
  \/ Reload

SpecAuth == Init /\ [][NextAuth]_vars

\* ------------------------------------------------ the client: Customers page
MaxFetches == 3
MaxTotalPages == 2

SearchTerms == {<<>>, <<"a">>, <<"a", "l">>}

\* fetchCustomers of the render with the state v: one more request in flight
FetchCustomers(v) ==
  [v EXCEPT !.loading = TRUE, !.issued = @ + 1,
            !.pending = @ \cup {[n |-> v.issued + 1, q |-> v.searchTerm,
                                 page |-> v.currentPage]}]

\* the page is opened: the effect runs fetchCustomers
OpenPage ==
  /\ ~view.open
  /\ view' = FetchCustomers([NoView EXCEPT !.open = TRUE])
  /\ UNCHANGED <<store, resp, del, post, pipe, call, auth>>

\* the page is left: its state is gone and no response is looked at
ClosePage ==
  /\ view.open
  /\ view' = NoView
  /\ UNCHANGED <<store, resp, del, post, pipe, call, auth>>

HandleSearch(term) ==
  /\ view.open
  /\ view.issued < MaxFetches
  /\ term # view.searchTerm
  /\ view' = FetchCustomers([view EXCEPT !.searchTerm = term, !.currentPage = 1])
  /\ UNCHANGED <<store, resp, del, post, pipe, call, auth>>

\* a button of the pagination bar, which shows when totalPages > 1
SetCurrentPage(page) ==
  /\ view.open
  /\ view.issued < MaxFetches
  /\ view.totalPages > 1
  /\ page \in 1..view.totalPages
  /\ page # view.currentPage
  /\ view' = FetchCustomers([view EXCEPT !.currentPage = page])
  /\ UNCHANGED <<store, resp, del, post, pipe, call, auth>>

\* fetchCustomers() after a delete or a save in the modal
Refetch ==
  /\ view.open
  /\ view.issued < MaxFetches
  /\ view' = FetchCustomers(view)
  /\ UNCHANGED <<store, resp, del, post, pipe, call, auth>>

\* the code of fetchCustomers after its await: try, catch and finally
ListResponse(v, r, ok, pages) ==
  IF ok
    THEN [v EXCEPT !.pending = @ \ {r}, !.shown = r, !.totalPages = pages,
                   !.loading = FALSE]
  ELSE [v EXCEPT !.pending = @ \ {r}, !.loading = FALSE]

ListRespond(r, ok, pages) ==
  /\ r \in view.pending
  /\ view' = ListResponse(view, r, ok, pages)
  /\ UNCHANGED <<store, resp, del, post, pipe, call, auth>>

NextView ==
  \/ OpenPage
  \/ ClosePage
  \/ \E term \in SearchTerms : HandleSearch(term)
  \/ \E page \in 1..MaxTotalPages : SetCurrentPage(page)
  \/ Refetch
  \/ \E r \in view.pending, ok \in BOOLEAN, pages \in 0..MaxTotalPages :
       ListRespond(r, ok, pages)

SpecView == Init /\ [][NextView]_vars

\* ===================================================================
\* Properties
\* ===================================================================
\* this step is a handler answering a request
Served == resp = NoResponse /\ resp' # NoResponse

\* a by-id request of a non-admin user on a customer another non-admin owns
ForeignRequest(req) ==
  /\ req.route \in ByIdRoutes
  /\ Role(req.user) = "user"
  /\ req.cid \in DOMAIN customers
  /\ customers[req.cid].ownerId # req.user
  /\ Role(customers[req.cid].ownerId) = "user"

\* ids that were handed out and whose document is gone
DeletedCustomers == (1..(nextCustomerId - 1)) \ DOMAIN customers
DeletedLeads == (1..(nextLeadId - 1)) \ DOMAIN leads

OrphanLeads == {l \in DOMAIN leads : leads[l].customerId \notin DOMAIN customers}

\* C1 as stated: every by-id request of non-admin A on a customer of non-admin
\* B is answered 403 and leaves both collections as they were.
C1_Original ==
  [][(Served /\ ForeignRequest(resp'.req))
       => /\ resp'.status = 403
          /\ customers' = customers
          /\ leads' = leads]_vars

\* C1 amended: such a request is answered 403 when its body or query passes
\* the route's schema and 400 (validation failed) when it does not; in both
\* cases the Customers and Leads collections are unchanged.
C1_ForeignRequestDenied ==
  [][(Served /\ ForeignRequest(resp'.req))
       => /\ SchemaOk(resp'.req) => resp'.status = 403
          /\ ~SchemaOk(resp'.req) => resp'.status = 400
          /\ customers' = customers
          /\ leads' = leads]_vars

C1_Witness ==
  /\ resp.req.route = "DELETE /customers/:id"
  /\ resp.status = 403
  /\ ForeignRequest(resp.req)
  /\ \E l \in DOMAIN leads : leads[l].customerId = resp.req.cid

\* C2: on a by-id route, an admin or the customer's owner is never answered
\* 403; when the customer exists and the body or query is valid, the answer
\* is that of the operation itself (success, or the lead lookup's 400 / 404).
C2_OwnerOrAdminAllowed ==
  [][(/\ Served
      /\ resp'.req.route \in ByIdRoutes
      /\ resp'.req.cid \in DOMAIN customers
      /\ (Role(resp'.req.user) = "admin"
            \/ customers[resp'.req.cid].ownerId = resp'.req.user))
       => /\ resp'.status # 403
          /\ SchemaOk(resp'.req)
               => \/ resp'.status \in {200, 201}
                  \/ /\ resp'.req.route \in {"GET /leads/:leadId", "PUT /leads/:leadId",
                                             "DELETE /leads/:leadId"}
                     /\ resp'.error \in {"Lead not found", "Invalid lead or customer ID"}]_vars

C2_Witness ==
  /\ resp.req.route = "PUT /customers/:id"
  /\ resp.status = 200
  /\ Role(resp.req.user) = "admin"
  /\ resp.req.cid \in DOMAIN customers
  /\ customers[resp.req.cid].ownerId # resp.req.user

\* C3: a 200 answer of GET /api/customers to a non-admin lists only customers
\* that user owns; to an admin no owner filter applies; total and totalPages
\* count the same owner-restricted (and q-matching) set.
C3_ListOwnerScoped ==
  (resp.req.route = "GET /customers" /\ resp.status = 200) =>
    LET u == resp.req.user
        q == resp.list.q
        scope == {c \in DOMAIN customers :
                    (Role(u) = "admin" \/ customers[c].ownerId = u)
                    /\ (q # <<>> => SearchMatch(customers[c], q))}
        items == {resp.list.items[i] : i \in 1..Len(resp.list.items)}
    IN /\ items \subseteq scope
       /\ resp.list.total = Cardinality(scope)
       /\ resp.list.totalPages * resp.list.limit >= resp.list.total
       /\ (resp.list.totalPages - 1) * resp.list.limit < resp.list.total
            \/ (resp.list.total = 0 /\ resp.list.totalPages = 0)

C3_Witness ==
  /\ resp.req.route = "GET /customers"
  /\ resp.status = 200
  /\ Role(resp.req.user) = "user"
  /\ resp.list.total = 1
  /\ Len(resp.list.items) = 1
  /\ Cardinality(DOMAIN customers) = 2

\* C4: a DELETE /api/customers/C answered 200 leaves neither customer C nor
\* any lead with customerId C; from then on a GET of C, or of a lead under C,
\* is answered 404; a GET of a deleted lead id under any other path never
\* succeeds, and is answered 404 when the requester may access that customer.
C4_CascadeDelete ==
  [][Served =>
       /\ (resp'.req.route = "DELETE /customers/:id" /\ resp'.status = 200)
            => /\ resp'.req.cid \in DOMAIN customers
               /\ resp'.req.cid \notin DOMAIN customers'
               /\ \A l \in DOMAIN leads' : leads'[l].customerId # resp'.req.cid
               /\ \A l \in DOMAIN leads :
                    leads[l].customerId = resp'.req.cid => l \in DeletedLeads'
       /\ (resp'.req.route \in {"GET /customers/:id", "GET /leads/:leadId"}
             /\ resp'.req.cid \in DeletedCustomers)
            => resp'.status = 404
       /\ (resp'.req.route = "GET /leads/:leadId" /\ resp'.req.lid \in DeletedLeads)
            => /\ resp'.status # 200
               /\ (/\ resp'.req.cid \in DOMAIN customers
                   /\ (Role(resp'.req.user) = "admin"
                         \/ customers[resp'.req.cid].ownerId = resp'.req.user))
                    => resp'.status = 404]_vars

C4_Witness ==
  /\ resp.req.route = "GET /leads/:leadId"
  /\ resp.status = 404
  /\ resp.req.cid \in DeletedCustomers
  /\ resp.req.lid \in DeletedLeads
  /\ DOMAIN leads # {}

\* C5 as stated: a DELETE handler stopped between its two deletions, on a
\* customer that had leads, leaves a lead whose customer does not exist.
C5_Original ==
  (del.pc = "crashed" /\ del.deletedCount > 0) => OrphanLeads # {}

\* C5 amended: the first deletion is that of the leads, so a handler stopped
\* between its two deletions has removed no customer: C is still stored and
\* no lead of C is orphaned; the leads C had are lost, the record remains.
C5_CrashKeepsCustomer ==
  del.pc = "crashed" =>
    /\ del.cid \in DOMAIN customers
    /\ \A l \in DOMAIN leads : leads[l].customerId = del.cid => l \notin OrphanLeads

C5_Witness ==
  /\ del.pc = "crashed"
  /\ del.deletedCount > 0
  /\ del.cid \in DOMAIN customers
  /\ \A l \in DOMAIN leads : leads[l].customerId # del.cid

\* C6: when a DELETE of customer C and a POST of a lead under C have both
\* answered success and the created lead is stored, that lead refers to C and
\* C is not stored: the interleaving leaves an orphan.
C6_RaceLeavesOrphan ==
  (/\ del.pc = "done" /\ del.status = 200
   /\ post.pc = "done" /\ post.status = 201
   /\ post.cid = del.cid
   /\ post.lid \in DOMAIN leads)
    => /\ leads[post.lid].customerId = del.cid
       /\ post.lid \in OrphanLeads

C6_Witness ==
  /\ del.pc = "done" /\ del.status = 200
  /\ post.pc = "done" /\ post.status = 201
  /\ post.cid = del.cid
  /\ post.lid \in OrphanLeads

\* C7: with requests served one at a time and to completion, every lead's
\* customerId is the id of a stored customer.
C7_NoOrphanLeads == OrphanLeads = {}

C7_Witness ==
  /\ DeletedCustomers # {}
  /\ DeletedLeads # {}
  /\ DOMAIN leads # {}
  /\ resp.req.route = "DELETE /customers/:id"
  /\ resp.status = 200

\* C8: no request changes the ownerId of a customer that stays stored.
C8_OwnerImmutable ==
  [][\A c \in DOMAIN customers \cap DOMAIN customers' :
       customers'[c].ownerId = customers[c].ownerId]_vars

C8_Witness ==
  /\ resp.req.route = "PUT /customers/:id"
  /\ resp.status = 200
  /\ customers[resp.req.cid].ownerId # resp.req.user
  /\ customers[resp.req.cid].name = Trim(resp.req.body.name)

\* C9: a POST /api/customers answered 201 stored one new customer whose
\* ownerId is the requester's id, whatever the body held; the route answers
\* no requester with 403, admin or not.
C9_CreatorOwns ==
  [][(Served /\ resp'.req.route = "POST /customers")
       => /\ resp'.status # 403
          /\ resp'.status = 201
               => /\ DOMAIN customers' = DOMAIN customers \cup {nextCustomerId}
                  /\ nextCustomerId \notin DOMAIN customers
                  /\ customers'[nextCustomerId].ownerId = resp'.req.user]_vars

C9_Witness ==
  /\ resp.req.route = "POST /customers"
  /\ resp.status = 201
  /\ \E c, d \in DOMAIN customers :
       Role(customers[c].ownerId) = "admin" /\ Role(customers[d].ownerId) = "user"

\* C10: no two stored customers have the same email.
C10_UniqueEmails ==
  \A c, d \in DOMAIN customers : c # d => customers[c].email # customers[d].email

\* the routes whose body validate(schema) checks
BodyRoutes ==
  {"POST /customers", "PUT /customers/:id", "POST /leads", "PUT /leads/:leadId"}

\* the keys of the body that break a rule of the route's schema
Violations(req) ==
  IF req.route \in {"POST /customers", "PUT /customers/:id"}
    THEN CustomerErrors(req.body)
  ELSE LeadErrors(req.body)

\* C11: a create or update whose body breaks the schema is answered 400
\* 'Validation failed' with a details entry, field and message, for every key
\* in violation and for no other, and the collections stay as they were.
C11_AllViolationsReported ==
  [][(Served /\ resp'.req.route \in BodyRoutes /\ ~SchemaOk(resp'.req))
       => /\ resp'.status = 400
          /\ resp'.error = "Validation failed"
          /\ {d.field : d \in resp'.details} = Violations(resp'.req)
          /\ \A d \in resp'.details : d.message # <<>>
          /\ UNCHANGED store]_vars

\* an update of a stored customer by its owner, refused with two entries
C11_Witness ==
  /\ resp.req.route = "PUT /customers/:id"
  /\ resp.req.cid \in DOMAIN customers
  /\ customers[resp.req.cid].ownerId = resp.req.user
  /\ resp.status = 400
  /\ {d.field : d \in resp.details} = {"name", "email"}

\* C12: a lead create or update whose value is negative is answered 400 with
\* a details entry for the field value, and the leads stay as they were.
C12_NegativeValueRejected ==
  [][(/\ Served
      /\ resp'.req.route \in {"POST /leads", "PUT /leads/:leadId"}
      /\ Has(resp'.req.body, "value")
      /\ resp'.req.body.value < 0)
       => /\ resp'.status = 400
          /\ \E d \in resp'.details : d.field = "value"
          /\ UNCHANGED leads]_vars

\* the owner's update of a stored lead to value -5, refused
C12_Witness ==
  /\ resp.req.route = "PUT /leads/:leadId"
  /\ resp.req.body = [title |-> TitleDeal, value |-> -5]
  /\ resp.req.lid \in DOMAIN leads
  /\ leads[resp.req.lid].customerId = resp.req.cid
  /\ resp.req.cid \in DOMAIN customers
  /\ customers[resp.req.cid].ownerId = resp.req.user
  /\ leads[resp.req.lid].value >= 0
  /\ resp.status = 400
  /\ \E d \in resp.details : d.field = "value"

\* the stages in trace are strictly in the order given
InOrder(trace, order) ==
  \A i, j \in DOMAIN trace :
    i < j => \E a, b \in DOMAIN order :
               a < b /\ order[a] = trace[i] /\ order[b] = trace[j]

Ran(stage) == \E i \in DOMAIN pipe.trace : pipe.trace[i] = stage

\* C13 as stated: validation runs first, then authentication, the access
\* check and the handler; no request is authenticated before its body was
\* validated, and one with an invalid body is never authenticated.
C13_Original ==
  /\ InOrder(pipe.trace,
             <<"validation", "authentication", "access-control", "handler">>)
  /\ Ran("authentication") => Ran("validation") /\ SchemaOk(pipe.req)

\* C13 amended: authentication runs first, then validation, the access check
\* and the handler; a request without a valid token is answered 401 with no
\* other stage run, whatever its body, and an authenticated one with an
\* invalid body is answered 400 by validation before the handler.
C13_AuthenticationFirst ==
  /\ InOrder(pipe.trace,
             <<"authentication", "validation", "access-control", "handler">>)
  /\ Ran("validation") => Ran("authentication") /\ VerifyToken(pipe.token)
  /\ Ran("access-control") \/ Ran("handler")
       => Ran("validation") /\ SchemaOk(pipe.req)
  /\ (Stage = "done" /\ ~VerifyToken(pipe.token))
       => pipe.status = 401 /\ pipe.trace = <<"authentication">>
  /\ (Stage = "done" /\ VerifyToken(pipe.token) /\ ~SchemaOk(pipe.req))
       => pipe.status = 400 /\ pipe.trace = <<"authentication", "validation">>

\* an update with an invalid body and a forged token, answered 401
C13_Witness ==
  /\ Stage = "done"
  /\ pipe.req.route = "PUT /customers/:id"
  /\ pipe.req.cid \in DOMAIN customers
  /\ ~SchemaOk(pipe.req)
  /\ pipe.token = "forged"
  /\ pipe.status = 401

\* a list request answered 200
Lists == resp.req.route \in {"GET /customers", "GET /leads"} /\ resp.status = 200

\* C14: the pagination of a list answer has currentPage = page, totalPages =
\* ceil(total / limit), the least number of pages of limit records that hold
\* total, hasNextPage = (page < totalPages) and hasPrevPage = (page > 1);
\* 25 records at limit 10 are 3 pages, page 1 with a next and no previous
\* page, page 3 with no next.
C14_PaginationMetadata ==
  Lists =>
    LET l == resp.list
    IN /\ l.page >= 1 /\ l.limit >= 1 /\ l.total >= 0
       /\ l.totalPages * l.limit >= l.total
       /\ (l.totalPages - 1) * l.limit < l.total
       /\ l.hasNextPage = (l.page < l.totalPages)
       /\ l.hasPrevPage = (l.page > 1)
       /\ (l.total = 25 /\ l.limit = 10)
            => /\ l.totalPages = 3
               /\ l.page = 1 => l.hasNextPage /\ ~l.hasPrevPage
               /\ l.page = 3 => ~l.hasNextPage

\* page 3 of 25 records at limit 10
C14_Witness ==
  /\ Lists
  /\ resp.list.total = 25 /\ resp.list.limit = 10 /\ resp.list.page = 3
  /\ resp.list.totalPages = 3
  /\ ~resp.list.hasNextPage /\ resp.list.hasPrevPage

\* the records the filter of an answered list request selects
Matching ==
  IF resp.req.route = "GET /customers"
    THEN CustomerQuery(resp.req.user, QueryValue(resp.req.query))
  ELSE LeadQuery(resp.req.cid, QueryValue(resp.req.query))

\* the number of records of M created after x
Newer(M, x) == Cardinality({y \in M : y > x})

\* C15: the list returned is the records at positions (page-1)*limit+1 ..
\* page*limit of the matching records, newest first: at most limit of them,
\* the i-th with exactly (page-1)*limit+i-1 matching records newer than it,
\* and no matching record at one of these positions left out.
C15_PageSlice ==
  Lists =>
    LET l == resp.list
        first == (l.page - 1) * l.limit + 1
    IN /\ Len(l.items) <= l.limit
       /\ \A i \in DOMAIN l.items :
            /\ l.items[i] \in Matching
            /\ Newer(Matching, l.items[i]) + 1 = first + i - 1
       /\ \A x \in Matching :
            (first <= Newer(Matching, x) + 1 /\ Newer(Matching, x) + 1 < first + l.limit)
              => \E i \in DOMAIN l.items : l.items[i] = x

\* page 2 at limit 1 of two customers: the older one alone
C15_Witness ==
  /\ Lists
  /\ resp.req.route = "GET /customers"
  /\ resp.list.page = 2 /\ resp.list.limit = 1
  /\ Cardinality(Matching) = 2
  /\ resp.list.items = <<1>>

\* the request passes validateQuery and, on the leads route, the ownership
\* check, so that its handler reaches the find
ReachesFind ==
  /\ resp.req.route \in {"GET /customers", "GET /leads"}
  /\ SchemaOk(resp.req)
  /\ resp.req.route = "GET /leads" => CustomerGate(resp.req.user, resp.req.cid) = 200

\* C16: a list request for a page beyond the last, any page when nothing
\* matches included, is answered 200 with an empty list and hasNextPage
\* false.
C16_PageBeyondLast ==
  (/\ ReachesFind
   /\ (QueryValue(resp.req.query).page - 1) * QueryValue(resp.req.query).limit
        >= Cardinality(Matching))
    => /\ resp.status = 200
       /\ resp.list.items = <<>>
       /\ ~resp.list.hasNextPage

\* page 2 at limit 1 of a single customer
C16_Witness ==
  /\ ReachesFind
  /\ resp.req.route = "GET /customers"
  /\ QueryValue(resp.req.query).page = 2
  /\ Cardinality(Matching) = 1
  /\ resp.status = 200 /\ resp.list.items = <<>> /\ resp.list.totalPages = 1

\* C17: a list request without page is served page 1 and one without limit
\* is served limit 10; a page or a limit that is no integer, a page below 1
\* and a limit below 1 or above 100 are answered 400 'Query validation
\* failed' with no list, never served with another value.
C17_PageLimitDefaultsAndBounds ==
  resp.req.route \in {"GET /customers", "GET /leads"} =>
    LET query == resp.req.query
        bad(k) == /\ Has(query, k)
                  /\ \/ NumberKind(query[k]) # "integer"
                     \/ BelowMin(query[k], 1)
                     \/ k = "limit" /\ AboveMax(query[k], 100)
    IN /\ (bad("page") \/ bad("limit"))
            => /\ resp.status = 400
               /\ resp.error = "Query validation failed"
               /\ resp.list = NoList
       /\ (resp.status = 200 /\ ~Has(query, "page")) => resp.list.page = 1
       /\ (resp.status = 200 /\ ~Has(query, "limit")) => resp.list.limit = 10
       /\ (resp.status = 200 /\ Has(query, "page"))
            => resp.list.page = ToInteger(query.page)
       /\ (resp.status = 200 /\ Has(query, "limit"))
            => resp.list.limit = ToInteger(query.limit)

\* limit=101 asked by the owner of a customer, answered 400
C17_Witness ==
  /\ resp.req.route = "GET /customers"
  /\ resp.req.query = [limit |-> <<"1", "0", "1">>]
  /\ \E c \in DOMAIN customers : customers[c].ownerId = resp.req.user
  /\ resp.status = 400
  /\ resp.error = "Query validation failed"

\* q is, case-insensitively, a run of consecutive characters of s
Contains(q, s) ==
  \E i \in 1..(Len(s) - Len(q) + 1) :
    ToLower(SubSeq(s, i, i + Len(q) - 1)) = ToLower(q)

\* the customers req.user may see
Visible(u) ==
  {c \in DOMAIN customers : Role(u) = "admin" \/ customers[c].ownerId = u}

\* C18: a search with a non-empty q returns the visible customers that have
\* q, compared case-insensitively, as a substring of name, email or company,
\* and no others; without q, or with an empty one, all visible customers.
C18_SubstringSearch ==
  (Lists /\ resp.req.route = "GET /customers"
     /\ resp.list.page = 1 /\ resp.list.limit = 10)
    => LET q == resp.list.q
       IN {resp.list.items[i] : i \in DOMAIN resp.list.items}
            = {c \in Visible(resp.req.user) :
                 q # <<>> => \E k \in {"name", "email", "company"} :
                               Has(customers[c], k) /\ Contains(q, customers[c][k])}

\* the leads of customer X, and those of them in a status
LeadsOf(X) == {l \in DOMAIN leads : leads[l].customerId = X}

LeadsIn(X, status) == {l \in LeadsOf(X) : leads[l].status = status}

\* C19: the leads list of customer X with a status of the enum returns and
\* counts the leads of X in that status, with no status or the empty one the
\* leads of X; any other status is answered 400 with no list.
C19_StatusFilter ==
  resp.req.route = "GET /leads" =>
    LET query == resp.req.query
        X == resp.req.cid
        wanted == IF Has(query, "status") /\ query.status # ""
                    THEN LeadsIn(X, query.status)
                  ELSE LeadsOf(X)
    IN /\ (Has(query, "status") /\ query.status \notin LeadStatuses \cup {""})
            => resp.status = 400 /\ resp.list = NoList
       /\ resp.status = 200
            => /\ resp.list.total = Cardinality(wanted)
               /\ \A i \in DOMAIN resp.list.items : resp.list.items[i] \in wanted
               /\ (resp.list.page = 1 /\ resp.list.limit = 10)
                    => {resp.list.items[i] : i \in DOMAIN resp.list.items} = wanted

\* one of two leads of a customer is Contacted and is the one listed
C19_Witness ==
  /\ resp.req.route = "GET /leads"
  /\ resp.req.query = [status |-> "Contacted"]
  /\ resp.status = 200
  /\ Cardinality(LeadsOf(resp.req.cid)) = 2
  /\ resp.list.total = 1
  /\ Len(resp.list.items) = 1

\* C20: an authorised update of a stored lead with a body of status and
\* value alone, as the README shows it, is answered 200 and the lead has the
\* status and the value sent.
C20_UpdateStatusAndValue ==
  (/\ resp.req.route = "PUT /leads/:leadId"
   /\ DOMAIN resp.req.body = {"status", "value"}
   /\ resp.req.body.status \in LeadStatuses
   /\ resp.req.body.value >= 0
   /\ CustomerGate(resp.req.user, resp.req.cid) = 200
   /\ resp.req.lid \in LeadsOf(resp.req.cid))
    => /\ resp.status = 200
       /\ leads[resp.req.lid].status = resp.req.body.status
       /\ leads[resp.req.lid].value = resp.req.body.value

\* C22: a by-id request that passes validation is answered 400 for a
\* malformed customer id; else 404 'Customer not found' when no customer has
\* the id, whoever asks; else 403 for a non-admin who is not the owner; else,
\* on a lead route, 404 'Lead not found' when the customer has no such lead.
\* The store is the same after each of these.
C22_ErrorPrecedence ==
  [][(Served /\ resp'.req.route \in ByIdRoutes /\ SchemaOk(resp'.req))
       => LET r == resp'.req
              exists == r.cid \in DOMAIN customers
              allowed == Role(r.user) = "admin" \/ customers[r.cid].ownerId = r.user
          IN /\ r.cid = MalformedId => resp'.status = 400 /\ UNCHANGED store
             /\ (r.cid # MalformedId /\ ~exists)
                  => /\ resp'.status = 404
                     /\ resp'.error = "Customer not found"
                     /\ UNCHANGED store
             /\ (exists /\ ~allowed)
                  => /\ resp'.status = 403
                     /\ resp'.error = "Access denied"
                     /\ UNCHANGED store
             /\ (/\ exists /\ allowed
                 /\ r.route \in LeadIdRoutes
                 /\ r.lid # MalformedId
                 /\ ~(r.lid \in DOMAIN leads /\ leads[r.lid].customerId = r.cid))
                  => /\ resp'.status = 404
                     /\ resp'.error = "Lead not found"
                     /\ UNCHANGED store]_vars

\* a user who owns nothing asks for an id no customer has, while another
\* user's customer is stored: 404
C22_Witness ==
  /\ resp.req.route \in ByIdRoutes
  /\ Role(resp.req.user) = "user"
  /\ customers # <<>>
  /\ \A c \in DOMAIN customers : customers[c].ownerId # resp.req.user
  /\ resp.req.cid # MalformedId
  /\ resp.req.cid \notin DOMAIN customers
  /\ resp.status = 404
  /\ resp.error = "Customer not found"

\* C24: a read, update or delete of lead L through customer Y, L being a lead
\* of another customer and the requester admin or owner of Y, is answered
\* 404 'Lead not found' and leaves the leads as they were.
C24_LeadOnlyThroughItsCustomer ==
  [][(/\ Served
      /\ resp'.req.route \in LeadIdRoutes
      /\ SchemaOk(resp'.req)
      /\ resp'.req.cid \in DOMAIN customers
      /\ (\/ Role(resp'.req.user) = "admin"
          \/ customers[resp'.req.cid].ownerId = resp'.req.user)
      /\ resp'.req.lid \in DOMAIN leads
      /\ leads[resp'.req.lid].customerId # resp'.req.cid)
       => /\ resp'.status = 404
          /\ resp'.error = "Lead not found"
          /\ UNCHANGED leads]_vars

\* a non-admin names its own customer and the lead of a customer of
\* another user
C24_Witness ==
  /\ resp.req.route = "PUT /leads/:leadId"
  /\ SchemaOk(resp.req)
  /\ Role(resp.req.user) = "user"
  /\ resp.req.cid \in DOMAIN customers
  /\ customers[resp.req.cid].ownerId = resp.req.user
  /\ resp.req.lid \in DOMAIN leads
  /\ leads[resp.req.lid].customerId \in DOMAIN customers
  /\ customers[leads[resp.req.lid].customerId].ownerId # resp.req.user
  /\ resp.status = 404
  /\ resp.error = "Lead not found"

\* C25: a lead update answered 200 leaves status, value and description of
\* the stored lead as they were when the body does not hold them.
C25_UpdateKeepsOmittedFields ==
  [][(Served /\ resp'.req.route = "PUT /leads/:leadId" /\ resp'.status = 200)
       => \A k \in {"status", "value", "description"} :
            (~Has(resp'.req.body, k) /\ Has(leads[resp'.req.lid], k))
              => /\ Has(leads'[resp'.req.lid], k)
                 /\ leads'[resp'.req.lid][k] = leads[resp'.req.lid][k]]_vars

\* C26: a lead is created with the customerId of the path of its request
\* and keeps it through every later request.
C26_CustomerIdFixed ==
  [][/\ \A l \in DOMAIN leads \cap DOMAIN leads' :
          leads'[l].customerId = leads[l].customerId
     /\ \A l \in DOMAIN leads' \ DOMAIN leads :
          /\ resp'.req.route = "POST /leads"
          /\ leads'[l].customerId = resp'.req.cid]_vars

\* a lead of customer 2 after an update of it was answered 200
C26_Witness ==
  /\ resp.req.route = "PUT /leads/:leadId"
  /\ resp.status = 200
  /\ resp.req.cid = 2
  /\ resp.req.lid \in DOMAIN leads
  /\ leads[resp.req.lid].customerId = 2


\* C21: a handler of the customer and lead routes sends one response and no
\* more: none before its last await is over, one when it is through. When an
\* operation on the database fails, that response has status 400 or 500 and
\* the body {success: false, error}. Every status sent is one of 200, 201,
\* 400, 403, 404, 500, and a handler before an await can always go on.
C21_OneResponse ==
  /\ Len(call.sent) <= 1
  /\ Awaiting = "done" => Len(call.sent) = 1
  /\ Awaiting \notin {"idle", "done"} => call.sent = <<>> /\ ENABLED Await
  /\ \A i \in 1..Len(call.sent) :
       /\ call.sent[i].status \in {200, 201, 400, 403, 404, 500}
       /\ call.thrown # "" =>
            /\ call.sent[i].status \in {400, 500}
            /\ ~call.sent[i].success
            /\ call.sent[i].error # ""

C21_Witness ==
  /\ Awaiting = "done"
  /\ call.req.route = "DELETE /customers/:id"
  /\ call.thrown = "MongoNetworkError"
  /\ call.sent = <<Json(500, "Failed to delete customer", FALSE, NoList)>>
  /\ call.req.cid \in DOMAIN customers
  /\ nextLeadId > 1 /\ LeadsOf(call.req.cid) = {}

\* C27: the items of a list response and its pagination agree, also when a
\* customer or lead is created or deleted between the find and the count of
\* the handler: no more items than total, and hasNextPage false when fewer
\* items than limit were returned.
C27_ListAgreesWithPagination ==
  \A i \in 1..Len(call.sent) :
    (call.req.route \in {"GET /customers", "GET /leads"} /\ call.sent[i].status = 200) =>
      /\ Len(call.sent[i].list.items) <= call.sent[i].list.total
      /\ Len(call.sent[i].list.items) < call.sent[i].list.limit =>
           ~call.sent[i].list.hasNextPage

\* C28: a 200 of PUT /api/customers/:id carries the updated customer, not
\* null, also when a DELETE of the customer is served between the ownership
\* check and the update; the update creates no customer.
C28_UpdateReturnsCustomer ==
  [][(Awaiting = "findByIdAndUpdate" /\ call' # call) =>
       /\ call'.sent[1].status = 200 => call'.sent[1].found
       /\ DOMAIN customers' \subseteq DOMAIN customers]_vars

\* C23: logout of AuthProvider leaves the profile cache of the api service
\* empty, so that no later getProfile answers from it.
C23_LogoutClearsCache == [][Logout => auth'.cachedProfile = ""]_vars

\* C29: on the Customers page a response to an earlier list request never
\* replaces what a later one put on display, so that with no request left in
\* flight the page shows the answer to the last request it sent.
C29_LatestRequestShown ==
  [][\A r \in view.pending, pages \in 0..MaxTotalPages :
       ListRespond(r, TRUE, pages) =>
         /\ r.n >= view.shown.n
         /\ view'.pending = {} => view'.shown.n = view'.issued]_vars

\* C30: in the browser user is set only while a token is stored; logout
\* clears both; a login or register that succeeds stores the token and sets
\* the user, one that fails changes neither.
C30_UserOnlyWithToken ==
  [][/\ auth'.user # "" => auth'.token # ""
     /\ Logout => auth'.token = "" /\ auth'.user = ""
     /\ \A r \in auth.requests : \A o \in AuthOutcomes(r) :
          (Respond(r, o) /\ r.kind \in {"login", "register"}) =>
            IF o.status = 200
              THEN auth'.token = o.user /\ auth'.user = o.user
            ELSE auth'.token = auth.token /\ auth'.user = auth.user]_vars
====
